---- MODULE Spec2Model ----
(***************************************************************************)
(* A model of the reaction tracker of lolotron (src/tracker.py): the store *)
(* of tracked items, the reaction-added / reaction-removed listeners, the  *)
(* garbage collector, the callback registry and the JSON codec.            *)
(*                                                                         *)
(* Time is counted in units of 12 hours, so the default time to live of    *)
(* timedelta(days=1, hours=12) is 3 units.                                 *)
(*                                                                         *)
(* The listeners are asyncio coroutines.  A coroutine only gives up the    *)
(* event loop at an await that really suspends: the network calls of       *)
(* _unpackRawReaction and the msgObj.edit at the end of the render         *)
(* callback.  gc() is awaited but contains no await, so everything from    *)
(* the call of gc() to the call of msgObj.edit runs as one step, and after *)
(* the edit a listener does nothing more.                                  *)
(*                                                                         *)
(* inflight counts the listener tasks suspended in _unpackRawReaction.     *)
(* The payload of such a task influences nothing before the task resumes,  *)
(* so it is drawn when the task resumes.                                   *)
(***************************************************************************)
EXTENDS Bags, FiniteSets, Integers, Naturals, Sequences, TLC

\* ---------------------------------------------------------------- bounds
MaxTime == 1
MaxBoots == 1
MaxEntries == 2
\* how far the extend command may move an expiration out of the range that
\* creation gives it
MaxExtend == 2
MaxInflight == 2
\* the entries the store holds at most while the signup list is watched
MaxSignups == 3

\* ------------------------------------------------------ program constants
\* timedelta(days=1, hours=12), in units of 12 hours
DefaultTTL == 3
\* rsvp.expireTimeExt, timedelta(days=1, hours=0), in units of 12 hours
expireTimeExt == 2

\* ----------------------------------------------------------------- values
NoneVal == "None"

\* the messages of the channel; nothing ever tracks message 3
MsgIds == {1, 2, 3}
BotUser == "bot"
Members == {"u1", "u2"}
UserIds == Members \cup {BotUser}

\* discord.Member as returned by guild.fetch_member, discord.User as
\* returned by client.get_user
Member(id) == [form |-> "member", id |-> id]
User(id) == [form |-> "user", id |-> id]
Message(id) == [form |-> "message", id |-> id]
GuildId == "g1"

\* payload.emoji is always a PartialEmoji: id is None for a built-in
\* (unicode) reaction and the numeric id for a custom one
PartialEmoji(name, id) == [form |-> "partial", name |-> name, id |-> id]
Emoji(name, id) == [form |-> "emoji", name |-> name, id |-> id]
Str(name) == [form |-> "str", name |-> name, id |-> NoneVal]

ThumbsUp == PartialEmoji("thumbsup", NoneVal)
rsvpEmoji == PartialEmoji("tempest", "556")

\* the items the modules create: message 1 for the rsvp cog and u1, to expire
\* one unit later; message 2 for a cog that never registers callbacks, with
\* the default expiration; cogData is what the module set
CreateInputs ==
    {[msgId |-> 1, user |-> "u1", msg |-> "party", cogOwner |-> "rsvp",
      usrdata |-> "data", expireGiven |-> TRUE],
     [msgId |-> 2, user |-> "u2", msg |-> "raid", cogOwner |-> "legacy",
      usrdata |-> "data", expireGiven |-> FALSE]}

\* the reactions the gateway reports as added: who reacted with what
AddInputs ==
    {[user |-> "u1", emoji |-> rsvpEmoji], [user |-> "u1", emoji |-> ThumbsUp],
     [user |-> BotUser, emoji |-> rsvpEmoji]}

\* the reactions the gateway reports as removed: also one that nobody added
RemoveInputs ==
    AddInputs \cup {[user |-> "u2", emoji |-> rsvpEmoji]}

\* None where an object is expected
NoneUser == [form |-> "none", id |-> NoneVal]
NoneReact == [form |-> "none", name |-> NoneVal, id |-> NoneVal]
NoneMsg == [form |-> "none", id |-> 0]

\* the host's UTC offset, in units of 12 hours: UTC+12
UtcOffsets == {1}

\* what the client can look up: users, custom emojis (by id, with their
\* names), messages, and the members of the guild
PerfectClient ==
    [users |-> UserIds, emojis |-> [i \in {"556"} |-> "tempest"], messages |-> MsgIds,
     members |-> UserIds]

\* what the client finds when the bot is started again: everything, or
\* message 1 was deleted meanwhile, or u1 has left the guild
Clients ==
    {PerfectClient,
     [PerfectClient EXCEPT !.messages = MsgIds \ {1}],
     [PerfectClient EXCEPT !.members = UserIds \ {"u1"}]}

\* the UTC offsets of the hosts the bot runs on, in units of 12 hours
HostOffsets == {0, 1}

VARIABLES trackedItems, msgCb, procCb, now, inflight, jsonFile, unloaded, last,
          loading

vars == <<trackedItems, msgCb, procCb, now, inflight, jsonFile, unloaded, last,
          loading>>

\* ------------------------------------------------------------- equality
\* user == user: discord.py compares users (Member, User, ClientUser) by id
UserEq(a, b) ==
    IF a.form = "none" \/ b.form = "none" THEN a = b ELSE a.id = b.id

\* PartialEmoji.__eq__(self, other): a built-in emoji equals only another
\* PartialEmoji of the same name, a custom one any emoji object of the same id
PartialEmojiEq(self, other) ==
    IF self.id = NoneVal
    THEN other.form = "partial" /\ self.name = other.name
    ELSE other.form \in {"partial", "emoji"} /\ self.id = other.id

\* Emoji.__eq__(self, other)
EmojiEq(self, other) ==
    other.form \in {"partial", "emoji"} /\ self.id = other.id

\* l == r on reactions, with Python's dispatch: the left operand's __eq__,
\* and for a str or None on the left the reflected __eq__ of an emoji object
ReactEq(l, r) ==
    CASE l.form = "partial" -> PartialEmojiEq(l, r)
      [] l.form = "emoji" -> EmojiEq(l, r)
      [] OTHER -> CASE r.form = "partial" -> PartialEmojiEq(r, l)
                    [] r.form = "emoji" -> EmojiEq(r, l)
                    [] OTHER -> l = r

\* -------------------------------------------------------------- helpers
Restrict(f, S) == [x \in S |-> f[x]]

\* an assignment that leaves a key already present alone
DictSet_setdefault(d, k, v) ==
    [x \in DOMAIN d \cup {k} |-> IF x \in DOMAIN d THEN d[x] ELSE v]

\* the dict d after d[k] = v
DictSet(d, k, v) == [x \in DOMAIN d \cup {k} |-> IF x = k THEN v ELSE d[x]]

\* what the last step did: the branch of the code it took, the message id of
\* the payload (0 when there is none), the ids gc() reported as expired, the
\* callbacks it invoked and whether it ended in an exception
Outcome(path, msgId, removed, calls, raised) ==
    [path |-> path, msgId |-> msgId, removed |-> removed, calls |-> calls,
     raised |-> raised]

\* a step that tells nothing
NoOutcome == Outcome("", 0, {}, <<>>, FALSE)

\* the task load_settings of this process: where it stands, the keys of the
\* records it has still to decode, how many times the bot was started again,
\* what the client of this process can look up, and the keys of the records
\* it has restored
LoadTask(pc, todo, boots, client, restored) ==
    [pc |-> pc, todo |-> todo, boots |-> boots, client |-> client,
     restored |-> restored]

\* ------------------------------------------------------------------ Init
\* the first start: there is no file, load_settings has found none and ended
Init ==
    /\ trackedItems = <<>>
    /\ msgCb = {}
    /\ procCb = {}
    /\ now = 0
    /\ inflight = 0
    /\ jsonFile = [written |-> FALSE, complete |-> FALSE, data |-> <<>>]
    /\ unloaded = FALSE
    /\ loading = LoadTask("done", <<>>, 0, PerfectClient, {})
    /\ last = NoOutcome

\* ------------------------------------------------------------ data types
trackerEntry(user, react, timeStamp, valid) ==
    [user |-> user, react |-> react, timeStamp |-> timeStamp, valid |-> valid]

Tracker(owner, message, msgObj, entries, expire, cogData, cogOwner) ==
    [owner |-> owner, message |-> message, msgObj |-> msgObj,
     entries |-> entries, expire |-> expire, cogData |-> cogData,
     cogOwner |-> cogOwner]

\* ----------------------------------------------------- callback registry
\* the bot constructs its cogs, and the rsvp cog registers in its
\* constructor, before it connects: nothing else happens before
Ready == "rsvp" \in msgCb

registerCallbacks(name) ==
    /\ ~unloaded
    /\ name \notin msgCb
    /\ msgCb' = msgCb \cup {name}
    /\ procCb' = procCb \cup {name}
    /\ last' = NoOutcome
    /\ UNCHANGED <<trackedItems, now, inflight, jsonFile, unloaded, loading>>

\* ------------------------------------------------------------- the store
\* expireGiven = FALSE stands for expire=None
createTrackedItem(msgObj, user, msg, cogOwner, usrdata, expireGiven, expire) ==
    LET expireTime == IF ~expireGiven THEN now + DefaultTTL ELSE expire
        t == Tracker(user, msg, msgObj, <<>>, expireTime, usrdata, cogOwner)
    IN  /\ Ready /\ ~unloaded
        /\ trackedItems' = DictSet(trackedItems, msgObj.id, t)
        /\ last' = NoOutcome
        /\ UNCHANGED <<msgCb, procCb, now, inflight, jsonFile, unloaded, loading>>

\* None is the empty set, a found item the singleton of it
getTrackedItem(items, msgId) ==
    IF msgId \notin DOMAIN items THEN {} ELSE {items[msgId]}

deleteTrackedItem(msgId) ==
    /\ Ready /\ ~unloaded
    /\ trackedItems' = Restrict(trackedItems, DOMAIN trackedItems \ {msgId})
    /\ last' = NoOutcome
    /\ UNCHANGED <<msgCb, procCb, now, inflight, jsonFile, unloaded, loading>>

\* the comparison strict
isExpired_lt(v, cTime) == v.expire < cTime

\* the comparison the wrong way round
isExpired_ge(v, cTime) == v.expire >= cTime

\* v.expire <= cTime
isExpired(v, cTime) == v.expire <= cTime

\* the scan that finds nothing expired
expiredList_none(items, cTime) == {}

\* every item taken for expired
expiredList_all(items, cTime) == DOMAIN items

\* the ids gc() finds expired at time cTime, and prints
expiredList(items, cTime) == {k \in DOMAIN items : isExpired(items[k], cTime)}

\* the sweep that removes nothing
gc_nothing(items, cTime) == items

\* the store after gc() ran at time cTime
gc(items, cTime) == Restrict(items, DOMAIN items \ expiredList(items, cTime))

\* one round of the periodic task: gc(), then sleep
gc_task ==
    /\ Ready /\ ~unloaded
    /\ trackedItems' = gc(trackedItems, now)
    /\ last' = Outcome("gc", 0, expiredList(trackedItems, now), <<>>, FALSE)
    /\ UNCHANGED <<msgCb, procCb, now, inflight, jsonFile, unloaded, loading>>

\* the clock (datetime.utcnow) advances
Tick ==
    /\ Ready /\ ~unloaded
    /\ now < MaxTime
    /\ now' = now + 1
    /\ last' = NoOutcome
    /\ UNCHANGED <<trackedItems, msgCb, procCb, inflight, jsonFile, unloaded, loading>>

\* ------------------------------------------------------------ listeners
\* the gateway delivers a notification: discord.py starts a task running the
\* listener, which first awaits _unpackRawReaction
Notify ==
    /\ Ready /\ ~unloaded
    /\ inflight < MaxInflight
    /\ inflight' = inflight + 1
    /\ last' = NoOutcome
    /\ UNCHANGED <<trackedItems, msgCb, procCb, now, jsonFile, unloaded, loading>>

\* a lookup of _unpackRawReaction raises (the message or the member is gone):
\* the listener ends before it touched the store
UnpackFail ==
    /\ ~unloaded
    /\ inflight > 0
    /\ inflight' = inflight - 1
    /\ last' = Outcome("unpack", 0, {}, <<>>, TRUE)
    /\ UNCHANGED <<trackedItems, msgCb, procCb, now, jsonFile, unloaded, loading>>

\* the number of entries the store holds
RECURSIVE SumLen(_, _)
SumLen(items, S) ==
    IF S = {} THEN 0
    ELSE LET k == CHOOSE x \in S : TRUE
         IN  Len(items[k].entries) + SumLen(items, S \ {k})

TotalEntries(items) == SumLen(items, DOMAIN items)

\* the scan with the test of valid inverted
alreadyIn_notValid(entries, user, emoji) ==
    \E i \in 1..Len(entries) :
        /\ UserEq(entries[i].user, user)
        /\ ReactEq(entries[i].react, emoji)
        /\ ~entries[i].valid

\* the scan without the test of the reaction
alreadyIn_anyReact(entries, user, emoji) ==
    \E i \in 1..Len(entries) :
        /\ UserEq(entries[i].user, user)
        /\ entries[i].valid

\* the scan without the test of valid
alreadyIn_anyValid(entries, user, emoji) ==
    \E i \in 1..Len(entries) :
        /\ UserEq(entries[i].user, user)
        /\ ReactEq(entries[i].react, emoji)

\* for e in event.entries: if (e.user == user) and (e.react == emoji) and (e.valid)
alreadyIn(entries, user, emoji) ==
    \E i \in 1..Len(entries) :
        /\ UserEq(entries[i].user, user)
        /\ ReactEq(entries[i].react, emoji)
        /\ entries[i].valid

\* the scan without the test of the reaction
matches_anyReact(entries, user, emoji) ==
    {i \in 1..Len(entries) :
        /\ UserEq(entries[i].user, user)
        /\ entries[i].valid}

\* the scan without the test of valid
matches_anyValid(entries, user, emoji) ==
    {i \in 1..Len(entries) :
        /\ UserEq(entries[i].user, user)
        /\ ReactEq(emoji, entries[i].react)}

\* for e in event.entries: if (e.user == user) and (e.valid) and (emoji == e.react)
matches(entries, user, emoji) ==
    {i \in 1..Len(entries) :
        /\ UserEq(entries[i].user, user)
        /\ entries[i].valid
        /\ ReactEq(emoji, entries[i].react)}

\* the index the loop breaks at: the first match
firstMatch(entries, user, emoji) ==
    CHOOSE i \in matches(entries, user, emoji) :
        \A j \in matches(entries, user, emoji) : i <= j

\* the entry deleted instead of invalidated
invalidate_delete(entries, i) ==
    SubSeq(entries, 1, i - 1) \o SubSeq(entries, i + 1, Len(entries))

\* rsvp.valid = False
invalidate(entries, i) == [entries EXCEPT ![i].valid = FALSE]

\* the test without the lookup in the registry
hasMsgCb_anyOwner(event, registry) == event.cogOwner # NoneVal

\* (event.cogOwner is not None) and (event.cogOwner in self.msgCb)
hasMsgCb(event, registry) ==
    event.cogOwner # NoneVal /\ event.cogOwner \in registry

\* the render callback never invoked
renderCalls_dropped(event, msgId, registry) == <<>>

\* the invocations of the render callback a listener makes for event: the
\* callback reads the event it is given before its first await
renderCalls(event, msgId, registry) ==
    IF hasMsgCb(event, registry)
    THEN <<[cog |-> event.cogOwner, msgId |-> msgId, item |-> event]>>
    ELSE <<>>


\* the test that lets the bot's own reactions through
isSelf_never(user) == FALSE

\* user == self.bot.user
isSelf(user) == UserEq(user, Member(BotUser))

\* on_raw_reaction_add from the return of _unpackRawReaction to the end of
\* the listener or to the await of msgObj.edit in the render callback, while
\* the store holds fewer than cap entries
on_raw_reaction_add_upto(cap, msgId, userId, emoji) ==
    LET user == Member(userId)
        found == expiredList(trackedItems, now)
        swept == gc(trackedItems, now)
    IN  /\ ~unloaded
        /\ inflight > 0
        /\ IF isSelf(user)
           THEN /\ trackedItems' = trackedItems
                /\ inflight' = inflight - 1
                /\ last' = Outcome("ignored_self", msgId, {}, <<>>, FALSE)
           ELSE IF msgId \notin DOMAIN swept
           THEN /\ trackedItems' = swept
                /\ inflight' = inflight - 1
                /\ last' = Outcome("not_tracked", msgId, found, <<>>, FALSE)
           ELSE IF alreadyIn(swept[msgId].entries, user, emoji)
           THEN /\ trackedItems' = swept
                /\ inflight' = inflight - 1
                /\ last' = Outcome("duplicate", msgId, found, <<>>, FALSE)
           ELSE LET newEntry == trackerEntry(user, emoji, now, TRUE)
                    event == [swept[msgId] EXCEPT !.entries = Append(@, newEntry)]
                    calls == renderCalls(event, msgId, msgCb)
                IN  /\ TotalEntries(swept) < cap
                    /\ trackedItems' = [swept EXCEPT ![msgId] = event]
                    /\ inflight' = inflight - 1
                    /\ last' = Outcome("appended", msgId, found, calls, FALSE)
        /\ UNCHANGED <<msgCb, procCb, now, jsonFile, unloaded, loading>>

on_raw_reaction_add(msgId, userId, emoji) ==
    on_raw_reaction_add_upto(MaxEntries, msgId, userId, emoji)

\* on_raw_reaction_remove, likewise
on_raw_reaction_remove(msgId, userId, emoji) ==
    LET user == Member(userId)
        found == expiredList(trackedItems, now)
        swept == gc(trackedItems, now)
    IN  /\ ~unloaded
        /\ inflight > 0
        /\ IF msgId \notin DOMAIN swept
           THEN /\ trackedItems' = swept
                /\ inflight' = inflight - 1
                /\ last' = Outcome("not_tracked", msgId, found, <<>>, FALSE)
           ELSE IF matches(swept[msgId].entries, user, emoji) = {}
           THEN /\ trackedItems' = swept
                /\ inflight' = inflight - 1
                /\ last' = Outcome("orphan", msgId, found, <<>>, FALSE)
           ELSE LET rsvp == firstMatch(swept[msgId].entries, user, emoji)
                    event == [swept[msgId] EXCEPT !.entries = invalidate(@, rsvp)]
                    calls == renderCalls(event, msgId, msgCb)
                IN  /\ trackedItems' = [swept EXCEPT ![msgId] = event]
                    /\ inflight' = inflight - 1
                    /\ last' = Outcome("invalidated", msgId, found, calls, FALSE)
        /\ UNCHANGED <<msgCb, procCb, now, jsonFile, unloaded, loading>>

\* ---------------------------------------------------------------- codec
\* trackerEntry.encode; datetime.timestamp() reads the naive timeStamp as
\* local time of a host off units east of UTC
trackerEntryEncode(data, off) ==
    [user |-> data.user.id,
     reactType |-> IF data.react.form = "str" THEN "unicode"
                   ELSE IF data.react.id = NoneVal THEN "unicode"
                   ELSE "emoji",
     react |-> IF data.react.form = "str" THEN data.react.name
               ELSE IF data.react.id = NoneVal THEN data.react.name
               ELSE data.react.id,
     timeStamp |-> data.timeStamp - off,
     valid |-> data.valid]

\* trackerEntry.decode; datetime.fromtimestamp() gives local time
trackerEntryDecode(client, data, off) ==
    LET user == IF data.user \in client.users THEN User(data.user) ELSE NoneUser
        react == IF data.reactType = "unicode" THEN Str(data.react)
                 ELSE IF data.reactType = "emoji"
                 THEN IF data.react \in DOMAIN client.emojis
                      THEN Emoji(client.emojis[data.react], data.react)
                      ELSE NoneReact
                 ELSE NoneReact
    IN  trackerEntry(user, react, data.timeStamp + off, data.valid)

\* Tracker.encode
TrackerEncode(data, off) ==
    [owner |-> data.owner.id,
     ownerGuild |-> GuildId,
     msg |-> data.message,
     msgId |-> data.msgObj.id,
     entries |-> [i \in 1..Len(data.entries) |-> trackerEntryEncode(data.entries[i], off)],
     expire |-> data.expire - off,
     cogOwner |-> data.cogOwner]

\* Tracker.decode, for a record whose owner the client can fetch;
\* datetime.utcfromtimestamp() gives UTC
TrackerDecode(client, data, off) ==
    LET owner == Member(data.owner)
        msgObj == IF data.msgId \in client.messages THEN Message(data.msgId) ELSE NoneMsg
        entries == [i \in 1..Len(data.entries) |->
                       trackerEntryDecode(client, data.entries[i], off)]
    IN  Tracker(owner, data.msg, msgObj, entries, data.expire, NoneVal, data.cogOwner)

\* int(k) for a key of the JSON object
IntOf(s) == CHOOSE k \in MsgIds : ToString(k) = s

\* json.dump(self.trackedItems, f, default=Tracker.encode): the keys of a
\* JSON object are strings
dumpItems(items, off) ==
    [s \in {ToString(k) : k \in DOMAIN items} |-> TrackerEncode(items[IntOf(s)], off)]

\* the loop of load_settings over jsonData.items()
loadItems(client, jsonData, off) ==
    [k \in {IntOf(s) : s \in DOMAIN jsonData} |->
        TrackerDecode(client, jsonData[ToString(k)], off)]

\* Tracker.encode raises at data.msgObj.id for an item whose msgObj is None
encodable(data) == data.msgObj.form # "none"

\* cog_unload: open(..., 'w+') truncates the file and json.dump writes it
\* record by record, in the order of the dict; an exception of Tracker.encode
\* ends the writing where it stands and is caught and printed
cog_unload(off) ==
    /\ Ready /\ ~unloaded
    /\ IF \A k \in DOMAIN trackedItems : encodable(trackedItems[k])
       THEN /\ jsonFile' = [written |-> TRUE, complete |-> TRUE,
                            data |-> dumpItems(trackedItems, off)]
            /\ last' = Outcome("save", 0, {}, <<>>, FALSE)
       ELSE \E before \in SUBSET {k \in DOMAIN trackedItems : encodable(trackedItems[k])} :
            /\ jsonFile' = [written |-> TRUE, complete |-> FALSE,
                            data |-> dumpItems(Restrict(trackedItems, before), off)]
            /\ last' = Outcome("save_failed", 0, {}, <<>>, FALSE)
    /\ unloaded' = TRUE
    /\ UNCHANGED <<trackedItems, msgCb, procCb, now, inflight, loading>>

\* -------------------------------------------------------------- restart
\* the process is started again after cog_unload: reactTracker.__init__
\* creates the tasks load_settings and gc_task, which wait for the bot to be
\* ready
restart ==
    /\ unloaded
    /\ loading.boots < MaxBoots
    /\ \E client \in Clients :
          loading' = LoadTask("start", <<>>, loading.boots + 1, client, {})
    /\ trackedItems' = <<>>
    /\ msgCb' = {}
    /\ procCb' = {}
    /\ inflight' = 0
    /\ unloaded' = FALSE
    /\ last' = NoOutcome
    /\ UNCHANGED <<now, jsonFile>>

\* the orders in which a dict with the keys S can be iterated
Orders(S) ==
    {f \in [1..Cardinality(S) -> S] : \A k \in S : \E i \in DOMAIN f : f[i] = k}

\* Tracker.decode raises when fetch_member does not find the owner
decodable(client, data) == data.owner \in client.members

\* rsvp.parseMsg(event): event.cogData = trackedEmojis
parseMsg(event) == [event EXCEPT !.cogData = "data"]

\* the test without the lookup in the registry
hasProcCb_anyOwner(v, registry) == v.cogOwner # NoneVal

\* (v.cogOwner is not None) and (v.cogOwner in self.procCb)
hasProcCb(v, registry) == v.cogOwner # NoneVal /\ v.cogOwner \in registry

\* the loop of load_settings over self.trackedItems.items() after the try
\* block: the invocations of the post-process callbacks, for the keys S
RECURSIVE procCalls(_, _, _)
procCalls(items, registry, S) ==
    IF S = {} THEN <<>>
    ELSE LET k == CHOOSE x \in S : \A y \in S : x <= y
             rest == procCalls(items, registry, S \ {k})
         IN  IF hasProcCb(items[k], registry)
             THEN <<[cog |-> items[k].cogOwner, msgId |-> k, item |-> items[k]]>> \o rest
             ELSE rest

\* the store after that loop
postProcess(items, registry) ==
    [k \in DOMAIN items |->
        IF hasProcCb(items[k], registry) THEN parseMsg(items[k]) ELSE items[k]]

\* load_settings from wait_until_ready to the first await of Tracker.decode:
\* the file is read and parsed; without a file, or with one that is not JSON,
\* the exception is caught and the task goes on to the post-process loop
load_open ==
    /\ Ready /\ ~unloaded
    /\ loading.pc = "start"
    /\ IF jsonFile.written /\ jsonFile.complete /\ DOMAIN jsonFile.data # {}
       THEN /\ \E order \in Orders(DOMAIN jsonFile.data) :
                  loading' = [loading EXCEPT !.pc = "decode", !.todo = order]
            /\ trackedItems' = trackedItems
            /\ last' = NoOutcome
       ELSE /\ loading' = [loading EXCEPT !.pc = "done"]
            /\ trackedItems' = postProcess(trackedItems, procCb)
            /\ last' = Outcome("loaded", 0, {},
                               procCalls(trackedItems, procCb, DOMAIN trackedItems),
                               ~(jsonFile.written /\ jsonFile.complete))
    /\ UNCHANGED <<msgCb, procCb, now, inflight, jsonFile, unloaded>>

\* load_settings from the return of one Tracker.decode to the await of the
\* next: the item is stored; after the last record, or when decode raised,
\* the post-process loop follows without an await in between
load_record(off) ==
    /\ Ready /\ ~unloaded
    /\ loading.pc = "decode"
    /\ LET k == Head(loading.todo)
           v == jsonFile.data[k]
           ok == decodable(loading.client, v)
           loaded == IF ok
                     THEN DictSet(trackedItems, IntOf(k),
                                  TrackerDecode(loading.client, v, off))
                     ELSE trackedItems
           finished == ~ok \/ Len(loading.todo) = 1
       IN  /\ loading' = [loading EXCEPT
                             !.pc = IF finished THEN "done" ELSE "decode",
                             !.todo = IF finished THEN <<>> ELSE Tail(@),
                             !.restored = IF ok THEN @ \cup {IntOf(k)} ELSE @]
           /\ trackedItems' = IF finished THEN postProcess(loaded, procCb) ELSE loaded
           /\ last' = IF finished
                      THEN Outcome("loaded", 0, {},
                                   procCalls(loaded, procCb, DOMAIN loaded), ~ok)
                      ELSE NoOutcome
    /\ UNCHANGED <<msgCb, procCb, now, inflight, jsonFile, unloaded>>

\* ------------------------------------------------------------------ Next
Next ==
    \/ registerCallbacks("rsvp")
    \/ \E c \in CreateInputs :
          createTrackedItem(Message(c.msgId), Member(c.user), c.msg, c.cogOwner,
                            c.usrdata, c.expireGiven, now + 1)
    \/ \E m \in MsgIds : deleteTrackedItem(m)
    \/ gc_task
    \/ Tick
    \/ Notify
    \/ UnpackFail
    \/ \E m \in MsgIds, r \in AddInputs : on_raw_reaction_add(m, r.user, r.emoji)
    \/ \E m \in MsgIds, r \in RemoveInputs : on_raw_reaction_remove(m, r.user, r.emoji)
    \/ \E off \in UtcOffsets : cog_unload(off)

Spec == Init /\ [][Next]_vars

\* the only reaction that comes and goes while the sweeper is watched
QuietInputs == {r \in AddInputs : r.user = "u1" /\ r.emoji = rsvpEmoji}

\* the store with little event traffic: one reaction on message 1
NextQuiet ==
    \/ registerCallbacks("rsvp")
    \/ \E c \in CreateInputs :
          createTrackedItem(Message(c.msgId), Member(c.user), c.msg, c.cogOwner,
                            c.usrdata, c.expireGiven, now + 1)
    \/ \E m \in MsgIds : deleteTrackedItem(m)
    \/ gc_task
    \/ Tick
    \/ Notify
    \/ UnpackFail
    \/ \E r \in QuietInputs : on_raw_reaction_add(1, r.user, r.emoji)
    \/ \E r \in QuietInputs : on_raw_reaction_remove(1, r.user, r.emoji)
    \/ \E off \in UtcOffsets : cog_unload(off)

\* the event loop runs the sweeper task whenever its sleep is over: the round
\* of gc_task is not put off forever while the bot is ready and not closed
SpecFair == Init /\ [][NextQuiet]_vars /\ WF_vars(gc_task)

\* the bot is stopped and started again: the store is saved by cog_unload
\* and restored by load_settings, on a host of some UTC offset
NextRestart ==
    \/ registerCallbacks("rsvp")
    \/ \E c \in CreateInputs :
          createTrackedItem(Message(c.msgId), Member(c.user), c.msg, c.cogOwner,
                            c.usrdata, c.expireGiven, now + 1)
    \/ gc_task
    \/ Tick
    \/ \E off \in HostOffsets : cog_unload(off)
    \/ restart
    \/ load_open
    \/ \E off \in HostOffsets : load_record(off)

SpecRestart == Init /\ [][NextRestart]_vars

\* the host whose local time is UTC: expirations survive the reload
ReloadOffsets == {0}

\* the reactions of u1 on the rsvp message, a custom and a built-in one
ReloadInputs == {r \in AddInputs : r.user = "u1"}

\* reactions on the rsvp message come and go before the bot is stopped and
\* after it is started again
NextReload ==
    \/ registerCallbacks("rsvp")
    \/ \E c \in {x \in CreateInputs : x.cogOwner = "rsvp"} :
          createTrackedItem(Message(c.msgId), Member(c.user), c.msg, c.cogOwner,
                            c.usrdata, c.expireGiven, now + 1)
    \/ Notify
    \/ \E r \in ReloadInputs : on_raw_reaction_add(1, r.user, r.emoji)
    \/ \E r \in ReloadInputs : on_raw_reaction_remove(1, r.user, r.emoji)
    \/ \E off \in ReloadOffsets : cog_unload(off)
    \/ restart
    \/ load_open
    \/ \E off \in ReloadOffsets : load_record(off)

SpecReload == Init /\ [][NextReload]_vars

\* ------------------------------------------------------- rsvp commands
\* the arguments users type after the command
SysIdArgs == {"1", "2", "3", "soon"}
QtyArgs == {"1", "-1", "soon"}

\* int(s) raises ValueError unless s is a decimal numeral, signed or not
isInt(s) == \E k \in -3..3 : ToString(k) = s
int(s) == CHOOSE k \in -3..3 : ToString(k) = s

\* rsvp.extend once ctx.message.delete() has returned; nothing is awaited
\* between the lookup and the assignment to event.expire, and msgGenerator
\* is called directly, whatever module owns the item
extend(author, sysId, qty) ==
    /\ Ready /\ ~unloaded
    /\ IF author = BotUser
         THEN /\ last' = Outcome("ignored_self", 0, {}, <<>>, FALSE)
              /\ UNCHANGED trackedItems
         ELSE IF ~(isInt(sysId) /\ isInt(qty))
         THEN /\ last' = Outcome("bad_args", 0, {}, <<>>, FALSE)
              /\ UNCHANGED trackedItems
         ELSE LET msgId == int(sysId)
                  timeUnits == int(qty)
              IN  IF getTrackedItem(trackedItems, msgId) = {}
                  THEN /\ last' = Outcome("not_found", msgId, {}, <<>>, FALSE)
                       /\ UNCHANGED trackedItems
                  ELSE LET event == trackedItems[msgId]
                           extTime == expireTimeExt * timeUnits
                           extended == [event EXCEPT !.expire = event.expire + extTime]
                       IN  /\ extended.expire \in
                                 (0 - MaxExtend)..(MaxTime + DefaultTTL + MaxExtend)
                           /\ trackedItems' = DictSet(trackedItems, msgId, extended)
                           /\ last' = Outcome("extended", msgId, {},
                                              <<[cog |-> "rsvp", msgId |-> msgId,
                                                 item |-> extended]>>, FALSE)
    /\ UNCHANGED <<msgCb, procCb, now, inflight, jsonFile, unloaded, loading>>

\* rsvp.delete once ctx.message.delete() has returned
delete(author, arg) ==
    /\ Ready /\ ~unloaded
    /\ IF author = BotUser
         THEN /\ last' = Outcome("ignored_self", 0, {}, <<>>, FALSE)
              /\ UNCHANGED trackedItems
         ELSE IF ~isInt(arg)
         THEN /\ last' = Outcome("bad_args", 0, {}, <<>>, FALSE)
              /\ UNCHANGED trackedItems
         ELSE LET msgId == int(arg)
              IN  IF getTrackedItem(trackedItems, msgId) = {}
                  THEN /\ last' = Outcome("not_found", msgId, {}, <<>>, FALSE)
                       /\ UNCHANGED trackedItems
                  ELSE IF ~UserEq(Member(author), trackedItems[msgId].owner)
                  THEN /\ last' = Outcome("not_owner", msgId, {}, <<>>, FALSE)
                       /\ UNCHANGED trackedItems
                  ELSE /\ trackedItems' =
                             Restrict(trackedItems, DOMAIN trackedItems \ {msgId})
                       /\ last' = Outcome("deleted", msgId, {}, <<>>, FALSE)
    /\ UNCHANGED <<msgCb, procCb, now, inflight, jsonFile, unloaded, loading>>

\* the rsvp commands beside creation, the clock and the sweeper
NextExtend ==
    \/ registerCallbacks("rsvp")
    \/ \E c \in CreateInputs :
          createTrackedItem(Message(c.msgId), Member(c.user), c.msg, c.cogOwner,
                            c.usrdata, c.expireGiven, now + 1)
    \/ gc_task
    \/ Tick
    \/ \E a \in UserIds, s \in SysIdArgs, q \in QtyArgs : extend(a, s, q)
    \/ \E a \in UserIds, s \in SysIdArgs : delete(a, s)

SpecExtend == Init /\ [][NextExtend]_vars

\* --------------------------------------------------------- signup list
\* s in signups: list membership compares with ==
inList(user, list) == \E i \in 1..Len(list) : UserEq(list[i], user)

\* the list that also counts the entries whose reaction was removed
RECURSIVE signupsFrom_anyEntry(_, _, _)
signupsFrom_anyEntry(entries, i, list) ==
    IF i > Len(entries) THEN list
    ELSE LET e == entries[i]
         IN  IF ReactEq(e.react, rsvpEmoji) /\ ~inList(e.user, list)
             THEN signupsFrom_anyEntry(entries, i + 1, Append(list, e.user))
             ELSE signupsFrom_anyEntry(entries, i + 1, list)

\* the loop of msgGenerator over event.entries from the i-th on: an invalid
\* entry is skipped, a signup react appends its user unless the user is in
\* the list, any other react goes to sreacts
RECURSIVE signupsFrom(_, _, _)
signupsFrom(entries, i, list) ==
    IF i > Len(entries) THEN list
    ELSE LET e == entries[i]
         IN  IF e.valid /\ ReactEq(e.react, rsvpEmoji) /\ ~inList(e.user, list)
             THEN signupsFrom(entries, i + 1, Append(list, e.user))
             ELSE signupsFrom(entries, i + 1, list)

\* the signup list msgGenerator prints for event: the owner always first
signups(event) == signupsFrom(event.entries, 1, <<event.owner>>)

\* the users who react to the rsvp message, its owner u1 among them
SignupUsers == {"u1", "u2", "u3"}

SignupInputs ==
    {[user |-> u, emoji |-> rsvpEmoji] : u \in SignupUsers}
        \cup {[user |-> "u2", emoji |-> ThumbsUp]}

\* the rsvp message and the reactions that come and go on it
NextSignup ==
    \/ registerCallbacks("rsvp")
    \/ \E c \in {x \in CreateInputs : x.cogOwner = "rsvp"} :
          createTrackedItem(Message(c.msgId), Member(c.user), c.msg, c.cogOwner,
                            c.usrdata, c.expireGiven, now + 1)
    \/ Notify
    \/ \E r \in SignupInputs :
          on_raw_reaction_add_upto(MaxSignups, 1, r.user, r.emoji)
    \/ \E r \in SignupInputs : on_raw_reaction_remove(1, r.user, r.emoji)

SpecSignup == Init /\ [][NextSignup]_vars

\* ---------------------------------------------------------------- claims
\* the entries of item that are valid and are for user and reaction
validFor(item, user, emoji) ==
    {i \in 1..Len(item.entries) :
        /\ item.entries[i].valid
        /\ UserEq(item.entries[i].user, user)
        /\ ReactEq(item.entries[i].react, emoji)}

\* message m is tracked and has not expired
Live(m) == m \in DOMAIN trackedItems /\ trackedItems[m].expire > now

\* this step is on_raw_reaction_add, on_raw_reaction_remove for the payload
AddStep(m, r) == on_raw_reaction_add(m, r.user, r.emoji)

RemoveStep(m, r) == on_raw_reaction_remove(m, r.user, r.emoji)

\* what every step of on_raw_reaction_add, on_raw_reaction_remove for
\* message m leaves in last
AddOn(m) ==
    /\ last'.msgId = m
    /\ last'.path \in {"ignored_self", "not_tracked", "duplicate", "appended"}

RemoveOn(m) ==
    /\ last'.msgId = m
    /\ last'.path \in {"not_tracked", "orphan", "invalidated"}

\* this step is createTrackedItem for message m
CreateStep(m) ==
    \E c \in CreateInputs :
        /\ c.msgId = m
        /\ createTrackedItem(Message(c.msgId), Member(c.user), c.msg, c.cogOwner,
                             c.usrdata, c.expireGiven, now + 1)

\* C1: in every reachable state, whatever the interleaving of the listener
\* tasks in flight, the sweeper, createTrackedItem and deleteTrackedItem,
\* every tracked item holds at most one entry with valid = true for any
\* (user, reaction) pair.
C1_AtMostOneValid ==
    \A m \in DOMAIN trackedItems : \A r \in RemoveInputs :
        Cardinality(validFor(trackedItems[m], Member(r.user), r.emoji)) <= 1

\* two listeners are in flight while an item holds an invalidated entry and
\* a valid one for the same user and reaction
C1_Witness ==
    /\ inflight >= 2
    /\ \E m \in DOMAIN trackedItems :
          /\ Len(trackedItems[m].entries) = 2
          /\ trackedItems[m].entries[2].valid
          /\ UserEq(trackedItems[m].entries[1].user, trackedItems[m].entries[2].user)
          /\ ReactEq(trackedItems[m].entries[1].react, trackedItems[m].entries[2].react)

\* what C2 says of a reaction-added notification of user r.user
AddIsIdempotent(m, r) ==
    AddStep(m, r) =>
        /\ m \in DOMAIN trackedItems'
        /\ Cardinality(validFor(trackedItems'[m], Member(r.user), r.emoji)) = 1
        /\ validFor(trackedItems[m], Member(r.user), r.emoji) # {} =>
               Len(trackedItems'[m].entries) = Len(trackedItems[m].entries)

\* C2 as stated: for a tracked item that has not expired and for every user
\* and reaction, after a reaction-added notification for (user, reaction) is
\* processed the item holds exactly one valid entry for (user, reaction), and
\* a notification that finds a valid entry does not change the length of
\* entries.
C2_EveryUser ==
    [][\A m \in MsgIds :
          (AddOn(m) /\ Live(m)) => \A r \in AddInputs : AddIsIdempotent(m, r)]_vars

\* C2 amended: the same, for every user other than the bot itself.
C2_Idempotent ==
    [][\A m \in MsgIds :
          (AddOn(m) /\ Live(m)) =>
            \A r \in AddInputs : r.user # BotUser => AddIsIdempotent(m, r)]_vars

\* a repeated notification was processed and left one valid entry
C2_Witness ==
    /\ last.path = "duplicate"
    /\ last.msgId \in DOMAIN trackedItems
    /\ \E r \in AddInputs :
          Cardinality(validFor(trackedItems[last.msgId], Member(r.user), r.emoji)) = 1

\* entries of item m: nothing but appends and valid going from true to false
AppendOnly(m) ==
    LET old == trackedItems[m].entries
        new == trackedItems'[m].entries
    IN  /\ Len(new) >= Len(old)
        /\ \A i \in 1..Len(old) :
              /\ new[i].user = old[i].user
              /\ new[i].react = old[i].react
              /\ new[i].timeStamp = old[i].timeStamp
              /\ new[i].valid => old[i].valid

\* C3: the entries of a tracked item are append-only across every operation
\* of the store (listeners, sweep, save, callbacks), all but createTrackedItem
\* replacing the item: the length never decreases, user, reaction and
\* timestamp of an entry never change, and valid only goes from true to false.
C3_AppendOnly ==
    [][\A m \in DOMAIN trackedItems \cap DOMAIN trackedItems' :
          trackedItems'[m] # trackedItems[m] => (AppendOnly(m) \/ CreateStep(m))]_vars

\* the store was saved while an item held an invalidated entry and a later
\* valid one
C3_Witness ==
    /\ last.path = "save"
    /\ \E m \in DOMAIN trackedItems :
          /\ Len(trackedItems[m].entries) = 2
          /\ ~trackedItems[m].entries[1].valid
          /\ trackedItems[m].entries[2].valid

\* C4: a reaction-removed notification for (user, reaction), processed on a
\* tracked item that has not expired and holds a valid entry for (user,
\* reaction), sets the valid of exactly that entry to false and leaves the
\* number of entries and every other entry unchanged.
C4_RemoveInvalidates ==
    [][\A m \in MsgIds :
          (RemoveOn(m) /\ Live(m)) =>
            \A r \in RemoveInputs :
              (validFor(trackedItems[m], Member(r.user), r.emoji) # {}
                 /\ RemoveStep(m, r)) =>
                /\ m \in DOMAIN trackedItems'
                /\ \E i \in validFor(trackedItems[m], Member(r.user), r.emoji) :
                      /\ validFor(trackedItems[m], Member(r.user), r.emoji) = {i}
                      /\ trackedItems'[m] =
                            [trackedItems[m] EXCEPT !.entries[i].valid = FALSE]]_vars

\* a removal invalidated one entry of an item that holds another, valid one
C4_Witness ==
    /\ last.path = "invalidated"
    /\ last.msgId \in DOMAIN trackedItems
    /\ \E i, j \in 1..Len(trackedItems[last.msgId].entries) :
          /\ ~trackedItems[last.msgId].entries[i].valid
          /\ trackedItems[last.msgId].entries[j].valid

\* C5: gc() at time t removes exactly the items with expire <= t, leaves
\* every other item as it is, and run again at once it changes nothing.
C5_SweepExact ==
    [][(last'.path = "gc" /\ gc_task) =>
          /\ DOMAIN trackedItems' =
                {k \in DOMAIN trackedItems : trackedItems[k].expire > now}
          /\ \A k \in DOMAIN trackedItems' : trackedItems'[k] = trackedItems[k]
          /\ gc(trackedItems', now') = trackedItems']_vars

\* the sweeper removed an expired item and kept another item
C5_Witness ==
    /\ last.path = "gc"
    /\ last.removed # {}
    /\ trackedItems # <<>>

\* C6: once the time has reached the expire of an item, a reaction-added or
\* reaction-removed notification processed for it neither changes the item
\* nor invokes a callback, swept or not; and after a sweep getTrackedItem
\* returns None for it.
C6_ExpiredUntouched ==
    [][\A m \in MsgIds :
          (m \in DOMAIN trackedItems /\ trackedItems[m].expire <= now) =>
            /\ (AddOn(m) \/ RemoveOn(m)) =>
                  \A r \in RemoveInputs :
                    ((r \in AddInputs /\ AddStep(m, r)) \/ RemoveStep(m, r)) =>
                      /\ last'.calls = <<>>
                      /\ m \in DOMAIN trackedItems' =>
                            trackedItems'[m] = trackedItems[m]
            /\ (last'.path = "gc" /\ gc_task) =>
                  getTrackedItem(trackedItems', m) = {}]_vars

\* a listener was resumed for an item that had expired but was not swept yet,
\* and did not find it
C6_Witness ==
    /\ last.path = "not_tracked"
    /\ last.msgId \in last.removed

\* this step is a listener resumed for the payload
IngestStep(m, r) == (r \in AddInputs /\ AddStep(m, r)) \/ RemoveStep(m, r)

\* C7 as stated: a notification whose message id is not in the store leaves
\* the whole store unchanged and invokes no callback.
C7_StoreUnchanged ==
    [][\A m \in MsgIds :
          ((AddOn(m) \/ RemoveOn(m)) /\ m \notin DOMAIN trackedItems) =>
            \A r \in RemoveInputs :
              IngestStep(m, r) =>
                /\ trackedItems' = trackedItems
                /\ last'.calls = <<>>]_vars

\* C7 amended: such a notification invokes no callback, adds no item and
\* leaves every item that has not expired unchanged; the only change it can
\* make is the removal of expired items by the gc() the listener runs.
C7_LiveUnchanged ==
    [][\A m \in MsgIds :
          ((AddOn(m) \/ RemoveOn(m)) /\ m \notin DOMAIN trackedItems) =>
            \A r \in RemoveInputs :
              IngestStep(m, r) =>
                /\ last'.calls = <<>>
                /\ DOMAIN trackedItems' \subseteq DOMAIN trackedItems
                /\ \A k \in DOMAIN trackedItems' :
                      trackedItems'[k] = trackedItems[k]
                /\ \A k \in DOMAIN trackedItems :
                      trackedItems[k].expire > now => k \in DOMAIN trackedItems']_vars

\* a notification for a message that was not tracked was processed: its gc()
\* removed an expired item and an item is left in the store
C7_Witness ==
    /\ last.path = "not_tracked"
    /\ last.removed # {}
    /\ last.msgId \notin last.removed
    /\ trackedItems # <<>>

\* C8: a reaction-removed notification for (user, reaction), processed on a
\* tracked item that has not expired and holds no valid entry for (user,
\* reaction), leaves the item unchanged, invokes no callback and raises
\* nothing.
C8_OrphanAbsorbed ==
    [][\A m \in MsgIds :
          (RemoveOn(m) /\ Live(m)) =>
            \A r \in RemoveInputs :
              (validFor(trackedItems[m], Member(r.user), r.emoji) = {}
                 /\ RemoveStep(m, r)) =>
                /\ m \in DOMAIN trackedItems'
                /\ trackedItems'[m] = trackedItems[m]
                /\ last'.calls = <<>>
                /\ ~last'.raised]_vars

\* a removal was absorbed by an item whose entry was invalidated before
C8_Witness ==
    /\ last.path = "orphan"
    /\ last.msgId \in DOMAIN trackedItems
    /\ \E i \in 1..Len(trackedItems[last.msgId].entries) :
          ~trackedItems[last.msgId].entries[i].valid

\* the owning module of the item has a render callback
Registered(item) == item.cogOwner \in msgCb

\* the store holds the item m and an item of another module, and exactly one
\* of the two modules has registered a render callback
TwoModules(m) ==
    /\ Live(m)
    /\ \E k \in DOMAIN trackedItems \ {m} :
          /\ trackedItems[k].cogOwner # trackedItems[m].cogOwner
          /\ Registered(trackedItems[k]) # Registered(trackedItems[m])

\* what the claim expects of a call on item m
OwnerDecides(m) ==
    IF Registered(trackedItems[m])
    THEN Len(last'.calls) = 1
    ELSE /\ last'.calls = <<>>
         /\ m \in DOMAIN trackedItems'
         /\ trackedItems'[m].entries # trackedItems[m].entries

\* C9 as stated: with two tracked items of different modules of which one
\* has a render callback, every ingestion call on the item of the module
\* without a callback mutates it and invokes no callback, and every ingestion
\* call on the item of the other module invokes exactly one callback.
C9_EveryCall ==
    [][\A m \in MsgIds :
          ((AddOn(m) \/ RemoveOn(m)) /\ TwoModules(m)) =>
            \A r \in RemoveInputs : IngestStep(m, r) => OwnerDecides(m)]_vars

\* the call changes the entries of item m, and invokes the callback of the
\* owning module, once and for this item, exactly if there is one
MutatesAndMayCall(m) ==
    /\ m \in DOMAIN trackedItems'
    /\ trackedItems'[m].entries # trackedItems[m].entries
    /\ IF Registered(trackedItems[m])
       THEN /\ Len(last'.calls) = 1
            /\ last'.calls[1].cog = trackedItems[m].cogOwner
            /\ last'.calls[1].msgId = m
       ELSE last'.calls = <<>>

\* the call leaves item m as it is and invokes no callback
Absorbed(m) ==
    /\ m \in DOMAIN trackedItems'
    /\ trackedItems'[m] = trackedItems[m]
    /\ last'.calls = <<>>

\* C9 amended: in that situation an ingestion call that changes the entries
\* (an add by a user other than the bot with no valid entry for the pair, a
\* remove with a valid entry for the pair) mutates the item and invokes no
\* callback for the module without one, exactly one callback for the other
\* module; every other ingestion call changes nothing and invokes none.
C9_MutatingCalls ==
    [][\A m \in MsgIds :
          ((AddOn(m) \/ RemoveOn(m)) /\ TwoModules(m)) =>
            /\ AddOn(m) =>
                  \A r \in AddInputs :
                    AddStep(m, r) =>
                      IF r.user # BotUser
                         /\ validFor(trackedItems[m], Member(r.user), r.emoji) = {}
                      THEN MutatesAndMayCall(m)
                      ELSE Absorbed(m)
            /\ RemoveOn(m) =>
                  \A r \in RemoveInputs :
                    RemoveStep(m, r) =>
                      IF validFor(trackedItems[m], Member(r.user), r.emoji) # {}
                      THEN MutatesAndMayCall(m)
                      ELSE Absorbed(m)]_vars

\* both items are tracked and a call has mutated the item of the module
\* without a callback, invoking nothing
C9_Witness ==
    /\ last.path \in {"appended", "invalidated"}
    /\ last.calls = <<>>
    /\ last.msgId \in DOMAIN trackedItems
    /\ ~Registered(trackedItems[last.msgId])
    /\ \E k \in DOMAIN trackedItems : Registered(trackedItems[k])

\* the entry d restores the user, the reaction and the validity of entry o,
\* users and reactions compared as the program compares them (==)
SameEntry(d, o) ==
    /\ d.user.form # "none"
    /\ UserEq(d.user, o.user)
    /\ d.react.form # "none"
    /\ ReactEq(d.react, o.react)
    /\ d.valid = o.valid

\* the item d restores item o, its runtime payload reset
SameItem(d, o) ==
    /\ UserEq(d.owner, o.owner)
    /\ d.message = o.message
    /\ d.msgObj.form # "none"
    /\ d.msgObj.id = o.msgObj.id
    /\ d.cogOwner = o.cogOwner
    /\ Len(d.entries) = Len(o.entries)
    /\ \A i \in 1..Len(o.entries) : SameEntry(d.entries[i], o.entries[i])
    /\ d.cogData = NoneVal

\* C10: decoding what cog_unload wrote, with a client that resolves every
\* id, gives the same message ids and for each the owner, the payload
\* message, the message id, the owning module and the entries in order with
\* their user, reaction and validity, and cogData None.
C10_RoundTrip ==
    jsonFile.written =>
      \A off \in UtcOffsets :
        LET restored == loadItems(PerfectClient, jsonFile.data, off)
        IN  /\ DOMAIN restored = DOMAIN trackedItems
            /\ \A m \in DOMAIN restored : SameItem(restored[m], trackedItems[m])

\* the store was saved with an item that has runtime data and two entries,
\* one of a built-in and one of a custom reaction, one of them invalidated
\* (the built-in reaction is the one decode does not restore as it was)
C10_Witness ==
    /\ jsonFile.written
    /\ \E m \in DOMAIN trackedItems :
          LET e == trackedItems[m].entries
          IN  /\ trackedItems[m].cogData # NoneVal
              /\ Len(e) = 2
              /\ \E i, j \in 1..2 :
                    /\ e[i].react.id = NoneVal
                    /\ e[j].react.id # NoneVal
              /\ \E i \in 1..2 : ~e[i].valid

\* C11: for every tracked item and every UTC offset of the host, the expire
\* that Tracker.decode restores from what Tracker.encode wrote is the expire
\* the item had, so that saving and loading again never moves it.
C11_ExpirePreserved ==
    \A m \in DOMAIN trackedItems : \A off \in HostOffsets :
        encodable(trackedItems[m]) =>
            TrackerDecode(PerfectClient, TrackerEncode(trackedItems[m], off), off).expire
                = trackedItems[m].expire

\* message 2 was restored from the file with an expire earlier than any
\* createTrackedItem gives it (it is created with the default time to live)
C11_Witness ==
    /\ loading.pc = "done"
    /\ 2 \in loading.restored
    /\ 2 \in DOMAIN trackedItems
    /\ trackedItems[2].expire < DefaultTTL

\* this step ends the decoding loop of load_settings
LoadEnds == loading.pc = "decode" /\ loading'.pc = "done"

\* the records of the file that the client of this process can decode
wellFormed == {IntOf(k) : k \in {x \in DOMAIN jsonFile.data :
                                     decodable(loading.client, jsonFile.data[x])}}

\* C12: when load_settings has gone through a file in which a record fails
\* to decode, it has restored every other record of the file, wherever that
\* record stands in the file.
C12_OnlyBadSkipped ==
    [][LoadEnds => loading'.restored = wellFormed]_vars

\* load_settings ended on an exception of Tracker.decode and a record of the
\* file that decodes was not restored
C12_Witness ==
    /\ loading.pc = "done"
    /\ last.path = "loaded"
    /\ last.raised
    /\ jsonFile.complete
    /\ wellFormed \ loading.restored # {}

\* this step is cog_unload
UnloadStep == unloaded' /\ ~unloaded

\* C13: after cog_unload, whatever the store holds, the file is the file as
\* it was before or a complete encoding of the whole store, from which every
\* item can be decoded.
C13_SnapshotWhole ==
    [][UnloadStep =>
          \/ jsonFile' = jsonFile
          \/ /\ jsonFile'.complete
             /\ \E off \in HostOffsets :
                   /\ jsonFile'.data = dumpItems(trackedItems, off)
                   /\ DOMAIN loadItems(PerfectClient, jsonFile'.data, off)
                         = DOMAIN trackedItems]_vars

\* cog_unload has run on a store with an item restored without its message,
\* over a complete file of an earlier run
C13_Witness ==
    /\ last.path = "save_failed"
    /\ loading.boots > 0
    /\ jsonFile.written
    /\ ~jsonFile.complete

\* this step ends load_settings: the post-process loop runs in it
LoadFinishes == loading.pc # "done" /\ loading'.pc = "done"

\* the invocations of a post-process callback this step makes for message k
ProcCallsFor(k) == {i \in 1..Len(last'.calls) : last'.calls[i].msgId = k}

\* C14 as stated: when load_settings has gone through the records, the
\* post-process callback is invoked exactly once for each restored item
\* whose module is registered, and for no item before that.
C14_OncePerRestored ==
    [][/\ LoadFinishes =>
            \A k \in loading'.restored :
                jsonFile.data[ToString(k)].cogOwner \in procCb =>
                    Cardinality(ProcCallsFor(k)) = 1
       /\ last'.path = "loaded" => LoadFinishes]_vars

\* C14 amended: when load_settings has gone through the records, the
\* post-process callback is invoked exactly once, with the item as argument,
\* for each item that is in the store at that moment and whose module is
\* registered, and for nothing else; a restored item that was swept in the
\* meantime gets no invocation; no invocation is made before that moment.
C14_OncePerTracked ==
    [][/\ LoadFinishes =>
            /\ \A k \in DOMAIN trackedItems' :
                  IF trackedItems'[k].cogOwner \in procCb
                  THEN /\ Cardinality(ProcCallsFor(k)) = 1
                       /\ \A i \in ProcCallsFor(k) :
                             /\ last'.calls[i].cog = trackedItems'[k].cogOwner
                             /\ parseMsg(last'.calls[i].item) = trackedItems'[k]
                  ELSE ProcCallsFor(k) = {}
            /\ \A i \in 1..Len(last'.calls) :
                  last'.calls[i].msgId \in DOMAIN trackedItems'
            /\ loading'.restored \cap DOMAIN trackedItems \subseteq DOMAIN trackedItems'
       /\ last'.path = "loaded" => LoadFinishes]_vars

\* load_settings has restored two records and has invoked the post-process
\* callback for a restored item, whose cogData the callback has set
C14_Witness ==
    /\ loading.pc = "done"
    /\ last.path = "loaded"
    /\ Cardinality(loading.restored) = 2
    /\ \E i \in 1..Len(last.calls) :
          /\ last.calls[i].msgId \in loading.restored
          /\ last.calls[i].item.cogData = NoneVal
          /\ trackedItems[last.calls[i].msgId].cogData # NoneVal

\* this step changes the entries of message m
MutatesEntries(m) ==
    /\ m \in DOMAIN trackedItems
    /\ m \in DOMAIN trackedItems'
    /\ trackedItems'[m].entries # trackedItems[m].entries

\* C15: whatever listeners are in flight, a listener step invokes the render
\* callback for item m only in the step that changes the entries of m, at
\* most once, with the item as it is right after that change; and the step
\* that changes the entries of an item of a registered module invokes it. So
\* the invocations for an item follow the order of its mutations and none is
\* dropped.
C15_RenderFollowsMutation ==
    [][\A m \in MsgIds :
          (AddOn(m) \/ RemoveOn(m)) =>
            /\ Len(last'.calls) <= 1
            /\ \A i \in 1..Len(last'.calls) :
                  /\ MutatesEntries(m)
                  /\ last'.calls[i].msgId = m
                  /\ last'.calls[i].item = trackedItems'[m]
            /\ (MutatesEntries(m) /\ trackedItems[m].cogOwner \in msgCb) =>
                  Len(last'.calls) = 1]_vars

\* while another listener is in flight, a listener has changed an item that
\* already held an entry, and the callback was given the two entries
C15_Witness ==
    /\ inflight >= 1
    /\ last.path \in {"appended", "invalidated"}
    /\ Len(last.calls) = 1
    /\ Len(last.calls[1].item.entries) = 2
    /\ last.calls[1].item.entries = trackedItems[last.msgId].entries

\* C16: when a listener in flight and the sweeper meet on an item that has
\* expired, the first to run decides. A listener that finds the item gone
\* reports it as not tracked, changes nothing of it, invokes nothing and
\* raises nothing; a listener appends, invalidates or invokes the render
\* callback only for an item that is in the store, has not expired, and is
\* still in the store afterwards; and the sweeper removes what has expired
\* without raising.
C16_SweeperRace ==
    [][/\ \A m \in MsgIds :
            (AddOn(m) \/ RemoveOn(m)) =>
              /\ m \notin DOMAIN trackedItems =>
                    /\ last'.path \in {"not_tracked", "ignored_self"}
                    /\ m \notin DOMAIN trackedItems'
                    /\ last'.calls = <<>>
                    /\ ~last'.raised
              /\ (last'.path \in {"appended", "invalidated"} \/ last'.calls # <<>>) =>
                    /\ m \in DOMAIN trackedItems
                    /\ trackedItems[m].expire > now
                    /\ m \in DOMAIN trackedItems'
       /\ (last'.path = "gc" /\ gc_task) =>
            /\ ~last'.raised
            /\ DOMAIN trackedItems' =
                  {k \in DOMAIN trackedItems : ~(trackedItems[k].expire <= now)}]_vars

\* the sweeper has removed an expired item while a listener was in flight
C16_Witness ==
    /\ last.path = "gc"
    /\ last.removed # {}
    /\ inflight >= 1

\* C17: createTrackedItem always succeeds: it can be taken whenever the
\* cog runs, and after it the store holds under the message id an item with
\* no entries, the given owner, text, message, module data and owning
\* module, to expire at the caller's instant or, when none is given, 36
\* hours (DefaultTTL) after the creation; an item that was there under the
\* id is replaced, and the items under other ids are unchanged.
C17_CreateReplaces ==
    [][\A c \in CreateInputs :
          /\ (Ready /\ ~unloaded) => ENABLED CreateStep(c.msgId)
          /\ (last'.path = "" /\ c.msgId \in DOMAIN trackedItems'
                /\ CreateStep(c.msgId)) =>
                /\ trackedItems'[c.msgId].entries = <<>>
                /\ trackedItems'[c.msgId].owner = Member(c.user)
                /\ trackedItems'[c.msgId].message = c.msg
                /\ trackedItems'[c.msgId].msgObj = Message(c.msgId)
                /\ trackedItems'[c.msgId].cogData = c.usrdata
                /\ trackedItems'[c.msgId].cogOwner = c.cogOwner
                /\ trackedItems'[c.msgId].expire =
                      IF c.expireGiven THEN now + 1 ELSE now + DefaultTTL
                /\ DOMAIN trackedItems' = DOMAIN trackedItems \cup {c.msgId}
                /\ \A k \in DOMAIN trackedItems \ {c.msgId} :
                      trackedItems'[k] = trackedItems[k]]_vars

\* an item was just created with the default expiration, beside an item that
\* kept its entries
C17_Witness ==
    /\ last = NoOutcome
    /\ DOMAIN trackedItems = {1, 2}
    /\ trackedItems[2].entries = <<>>
    /\ trackedItems[2].expire = now + DefaultTTL
    /\ trackedItems[1].entries # <<>>
    /\ now >= 1

\* C18: the extend command can only add time: whatever the quantity, the
\* expiration of the item after the command is at or after the one before.
C18_OnlyAddsTime ==
    [][\A m \in DOMAIN trackedItems :
          (last'.path = "extended" /\ last'.msgId = m) =>
              trackedItems'[m].expire >= trackedItems[m].expire]_vars

\* an extend command has left an item with less than the time to live that
\* creation gave it: the item is to expire before the present
C18_Witness ==
    /\ last.path = "extended"
    /\ last.msgId \in DOMAIN trackedItems
    /\ trackedItems[last.msgId].expire < now

\* C19: only the owner of an item can extend it: an extend command of any
\* other user leaves the expiration of every item unchanged.
C19_OnlyOwnerExtends ==
    [][\A a \in UserIds, s \in SysIdArgs, q \in QtyArgs :
          (/\ last'.path = "extended"
           /\ extend(a, s, q)
           /\ ~UserEq(Member(a), trackedItems[last'.msgId].owner)) =>
              trackedItems'[last'.msgId].expire = trackedItems[last'.msgId].expire]_vars

\* the step of a listener for message 1 that changed the entries of the
\* item for the signup react of user u: the add appended, the remove
\* invalidated
SignupAdded(u) ==
    /\ last'.msgId = 1
    /\ last'.path = "appended"
    /\ on_raw_reaction_add_upto(MaxSignups, 1, u, rsvpEmoji)

SignupRemoved(u) ==
    /\ last'.msgId = 1
    /\ last'.path = "invalidated"
    /\ on_raw_reaction_remove(1, u, rsvpEmoji)

\* item holds an invalid entry for the signup react of user
hasRemoved(item, user) ==
    \E i \in 1..Len(item.entries) :
        /\ ~item.entries[i].valid
        /\ UserEq(item.entries[i].user, user)
        /\ ReactEq(item.entries[i].react, rsvpEmoji)

\* user u does not own the item of message 1 in items
notOwner(u, items) ==
    1 \in DOMAIN items => ~UserEq(Member(u), items[1].owner)

\* what the signup list owes the users of U across a step of a listener:
\* whose signup react was removed is no longer listed; whose signup react
\* was added again after a removal is listed last, behind the unchanged list
\* of those who were listed; and after any step nobody is listed twice and a user of U whose
\* signup entries are all invalid, one at least, is not listed
LosesSpot(U) ==
    /\ \A u \in U :
          /\ SignupRemoved(u) => ~inList(Member(u), signups(trackedItems'[1]))
          /\ (SignupAdded(u) /\ hasRemoved(trackedItems[1], Member(u))) =>
                signups(trackedItems'[1]) = Append(signups(trackedItems[1]), Member(u))
    /\ 1 \in DOMAIN trackedItems' =>
          LET list == signups(trackedItems'[1])
          IN  /\ \A i, j \in 1..Len(list) : UserEq(list[i], list[j]) => i = j
              /\ \A u \in U :
                    (/\ hasRemoved(trackedItems'[1], Member(u))
                     /\ validFor(trackedItems'[1], Member(u), rsvpEmoji) = {}) =>
                        ~inList(Member(u), list)

\* C20 as stated: every user who removes the signup reaction loses the spot,
\* the owner of the item included.
C20_EveryUserLosesSpot == [][LosesSpot(SignupUsers)]_vars

\* C20: in the list the render callback computes, every user other than the
\* owner of the item who removes the signup reaction loses the spot: while
\* the reaction is removed the user is not listed, and once it is added
\* again the user is listed last, behind every user whose signup entry
\* stayed valid; nobody is listed twice.
C20_OthersLoseSpot ==
    [][LosesSpot({u \in SignupUsers :
                    notOwner(u, trackedItems) /\ notOwner(u, trackedItems')})
       /\ (1 \in DOMAIN trackedItems' =>
              UserEq(signups(trackedItems'[1])[1], trackedItems'[1].owner))]_vars

\* u2 signed up, removed the reaction and, after u3 had signed up, added it
\* again: u2 is listed behind u3
C20_Witness ==
    /\ 1 \in DOMAIN trackedItems
    /\ Len(trackedItems[1].entries) = 3
    /\ trackedItems[1].entries[1] = trackerEntry(Member("u2"), rsvpEmoji, 0, FALSE)
    /\ trackedItems[1].entries[2].user = Member("u3")
    /\ trackedItems[1].entries[2].valid
    /\ last.path = "appended"
    /\ signups(trackedItems[1]) = <<Member("u1"), Member("u3"), Member("u2")>>

\* the entries of item that are invalid and are for user and reaction
invalidFor(item, user, emoji) ==
    {i \in 1..Len(item.entries) :
        /\ ~item.entries[i].valid
        /\ UserEq(item.entries[i].user, user)
        /\ ReactEq(item.entries[i].react, emoji)}

\* C21: invalidation of an entry is terminal. No step sets the valid of an
\* entry back to true: an entry that is invalid is invalid after every step
\* that keeps it. And a reaction-added notification of a user other than the
\* bot for a pair whose entries on a tracked item that has not expired are
\* all invalid, one at least (add, then remove), appends a new entry for the
\* pair with valid = true behind the old ones, which stay invalid.
C21_InvalidationTerminal ==
    [][\A m \in MsgIds :
          /\ (m \in DOMAIN trackedItems /\ m \in DOMAIN trackedItems') =>
                \A i \in 1..Len(trackedItems[m].entries) :
                    (~trackedItems[m].entries[i].valid
                        /\ i <= Len(trackedItems'[m].entries)) =>
                            ~trackedItems'[m].entries[i].valid
          /\ (AddOn(m) /\ Live(m)) =>
                \A r \in AddInputs :
                    (/\ r.user # BotUser
                     /\ AddStep(m, r)
                     /\ invalidFor(trackedItems[m], Member(r.user), r.emoji) # {}
                     /\ validFor(trackedItems[m], Member(r.user), r.emoji) = {}) =>
                        LET old == trackedItems[m].entries
                            new == trackedItems'[m].entries
                        IN  /\ last'.path = "appended"
                            /\ Len(new) = Len(old) + 1
                            /\ SubSeq(new, 1, Len(old)) = old
                            /\ new[Len(new)].valid
                            /\ UserEq(new[Len(new)].user, Member(r.user))
                            /\ ReactEq(new[Len(new)].react, r.emoji)]_vars

\* add, remove, add of the same pair was just processed: the item holds two
\* entries for the pair, the first invalid, the second valid
C21_Witness ==
    /\ last.path = "appended"
    /\ last.msgId \in DOMAIN trackedItems
    /\ LET entries == trackedItems[last.msgId].entries
       IN  /\ Len(entries) = 2
           /\ ~entries[1].valid
           /\ entries[2].valid
           /\ UserEq(entries[1].user, entries[2].user)
           /\ ReactEq(entries[1].react, entries[2].react)

\* the stored reaction react is the reaction the gateway reports as emoji: a
\* custom reaction by its id, a built-in one by its name
denotes(react, emoji) ==
    IF emoji.id = NoneVal
    THEN react.id = NoneVal /\ react.name = emoji.name
    ELSE react.id = emoji.id

\* the valid entries of item that decode restored (a live entry holds the
\* PartialEmoji of its payload) for user id u and the reaction emoji
restoredValid(item, u, emoji) ==
    {i \in 1..Len(item.entries) :
        /\ item.entries[i].valid
        /\ item.entries[i].react.form \in {"str", "emoji"}
        /\ item.entries[i].user.id = u
        /\ denotes(item.entries[i].react, emoji)}

\* C22: a restored reaction and the same reaction of a live notification are
\* the same reaction, built-in or custom: on an item that has not expired
\* and holds a restored valid entry for (user, reaction), processing a
\* reaction-added notification for the pair leaves the item as it is, and
\* processing a reaction-removed notification for it invalidates a restored
\* entry of the pair.
C22_RestoredIdentity ==
    [][\A m \in MsgIds :
          ((AddOn(m) \/ RemoveOn(m)) /\ Live(m)) =>
            \A r \in ReloadInputs :
              restoredValid(trackedItems[m], r.user, r.emoji) # {} =>
                /\ AddStep(m, r) => trackedItems'[m] = trackedItems[m]
                /\ RemoveStep(m, r) =>
                      \E i \in restoredValid(trackedItems[m], r.user, r.emoji) :
                          ~trackedItems'[m].entries[i].valid]_vars

\* after the reload a reaction-added notification was processed for a
\* built-in reaction the user had before the bot was stopped: the item holds
\* the restored valid entry and a second valid entry for the same reaction
C22_Witness ==
    /\ last.path = "appended"
    /\ last.msgId \in DOMAIN trackedItems
    /\ LET entries == trackedItems[last.msgId].entries
       IN  /\ Len(entries) = 2
           /\ 1 \in restoredValid(trackedItems[last.msgId], "u1", ThumbsUp)
           /\ entries[2] = trackerEntry(Member("u1"), ThumbsUp, now, TRUE)

\* C24: a reaction-added notification whose user is the bot itself changes
\* nothing: the store is as it was, expired items included, nothing is
\* reported as swept and no callback is invoked. A reaction-removed
\* notification of the bot is not filtered: it is processed as any user's,
\* sweeping the expired items and looking the entry up.
C24_OwnAddIgnored ==
    [][\A m \in MsgIds :
          /\ AddOn(m) =>
                \A r \in {x \in AddInputs : x.user = BotUser} :
                    AddStep(m, r) =>
                        /\ last'.path = "ignored_self"
                        /\ trackedItems' = trackedItems
                        /\ last'.removed = {}
                        /\ last'.calls = <<>>
          /\ RemoveOn(m) =>
                \A r \in {x \in RemoveInputs : x.user = BotUser} :
                    RemoveStep(m, r) =>
                        LET expired == {k \in DOMAIN trackedItems :
                                           trackedItems[k].expire <= now}
                        IN  /\ last'.removed = expired
                            /\ DOMAIN trackedItems' = DOMAIN trackedItems \ expired
                            /\ last'.path =
                                  IF m \notin DOMAIN trackedItems'
                                  THEN "not_tracked"
                                  ELSE IF validFor(trackedItems[m], Member(BotUser),
                                                   r.emoji) = {}
                                  THEN "orphan"
                                  ELSE "invalidated"]_vars

\* the bot's own reaction was just ignored while the store held an expired
\* item, which is still there
C24_Witness ==
    /\ last.path = "ignored_self"
    /\ \E k \in DOMAIN trackedItems : trackedItems[k].expire <= now

\* C23: while the bot is ready and not closed, and the sweeper task is
\* scheduled fairly, every tracked item whose expire has passed is eventually
\* out of the store (or the bot was closed, or the id was given a new item
\* that has not expired), whether or not a notification ever arrives.
C23_ExpiredSwept ==
    \A m \in MsgIds :
        (m \in DOMAIN trackedItems /\ trackedItems[m].expire <= now /\ ~unloaded)
            ~> (m \notin DOMAIN trackedItems \/ trackedItems[m].expire > now \/ unloaded)

\* the periodic sweeper has removed the expired item of message 1 while no
\* notification was being processed
C23_Witness ==
    /\ last.path = "gc"
    /\ 1 \in last.removed
    /\ 1 \notin DOMAIN trackedItems
    /\ inflight = 0
    /\ ~unloaded

====
